---- MODULE Spec2Model ----
(***************************************************************************)
(* CommunityPulse dashboard (src/app.py): one Streamlit script that is     *)
(* re-executed from top to bottom on every timer tick and widget change.   *)
(* The state is what survives between two executions (the file on disk,    *)
(* the uploaded buffer, the two st.cache_data caches, the widget values)   *)
(* together with what the last execution produced (df, filtered, top20,    *)
(* sub_counts and the three views).                                        *)
(*                                                                         *)
(* A CSV file is a header (a set of column names) and a sequence of rows   *)
(* of text fields.  A DataFrame is its columns and a sequence of rows,     *)
(* each an index label and typed cells: NaN, a string or a number.         *)
(***************************************************************************)
EXTENDS Integers, Sequences, FiniteSets, TLC

VARIABLES
    disk,                \* trending_analysis.csv in the working directory, or NoFile
    uploaded_file,       \* the st.file_uploader value, or NoFile (None)
    path_cache,          \* st.cache_data of load_data_from_path (one key: default_path)
    buffer_cache,        \* st.cache_data of load_data_from_buffer (keyed by content)
    argsort_ties,        \* how this build's default sort kind orders equal keys
    min_trending_score,  \* the slider
    status,              \* "ok": the script ran to its end; "stopped": st.stop()
    message,             \* the st.error / st.warning shown by get_data
    df,                  \* the loaded table after the type clean-up
    all_subs,            \* options of the subreddit multiselect
    selected_subs,       \* value of the subreddit multiselect
    filtered,
    top20,
    top20_plot,
    sub_counts,
    table_view,          \* "none" | "dataframe"
    bar_view,            \* "none" | "chart" | "info"
    pie_view             \* "none" | "chart" | "info"

vars == <<disk, uploaded_file, path_cache, buffer_cache, argsort_ties,
          min_trending_score, status, message, df, all_subs, selected_subs,
          filtered, top20, top20_plot, sub_counts, table_view, bar_view, pie_view>>

---------------------------------------------------------------------------
(* Bounds of the model *)

\* rows of the seed a generated CSV is built from
MaxRows == 2
\* a long CSV has TopN + Extra rows, so that head(20) cuts it
Extra == 1

(* Constants of the program *)

TopN == 20
TitleCut == 80
min_score_default == 60
SliderMin == 0
SliderMax == 100

default_path == "trending_analysis.csv"

expected == {"title", "subreddit", "trending_score", "score", "num_comments"}

---------------------------------------------------------------------------
(* Values *)

Min(a, b) == IF a < b THEN a ELSE b

NaN == [k |-> "nan", s |-> "", v |-> 0]
Str(s) == [k |-> "str", s |-> s, v |-> 0]
Num(v) == [k |-> "num", s |-> "", v |-> v]

NoFile == [exists |-> FALSE, header |-> {}, rows |-> <<>>]
EmptyFrame == [columns |-> {}, rows |-> <<>>]
NoMessage == [level |-> "none", text |-> "", names |-> {}]

\* the fields pandas.read_csv reads as missing (its default na_values)
NaTokens == {"", "n/a", "N/A", "NA", "NaN", "nan", "null", "NULL", "None", "#N/A", "<NA>"}

\* the numbers whose decimal text the generated files use
NumericValues == {-5, 0, 3, 4, 7, 8, 60, 90}

IsNumberText(s) == \E v \in NumericValues : ToString(v) = s
NumberOf(s) == CHOOSE v \in NumericValues : ToString(v) = s

---------------------------------------------------------------------------
(* pandas operations the script calls *)

\* pd.read_csv: a missing field is NaN; a column whose other fields are all
\* numbers is numeric, any other column keeps its fields as strings.
numeric_columns(file) ==
    {c \in file.header :
        \A i \in 1..Len(file.rows) : \/ file.rows[i][c] \in NaTokens
                                     \/ IsNumberText(file.rows[i][c])}

read_cell(field, numeric) ==
    IF field \in NaTokens THEN NaN
    ELSE IF numeric THEN Num(NumberOf(field))
    ELSE Str(field)

read_csv(file) ==
    CHOOSE frame \in
        {[columns |-> file.header,
          rows |-> [i \in 1..Len(file.rows) |->
                      [index |-> i - 1,
                       cells |-> [c \in file.header |->
                                    read_cell(file.rows[i][c], c \in numeric)]]]] :
         numeric \in {numeric_columns(file)}} : TRUE

\* pd.to_numeric(errors="coerce") of one cell
to_numeric(cell) ==
    IF cell.k = "num" THEN cell
    ELSE IF cell.k = "str" /\ IsNumberText(cell.s) THEN Num(NumberOf(cell.s))
    ELSE NaN

\* faulty variant: the missing values are left as they are
fillna_skipped(cell, value) == cell

fillna(cell, value) == IF cell.k = "nan" THEN Num(value) ELSE cell

\* Series.astype(str) of a non-missing cell; a numeric column that holds a NaN
\* is a float column, whose numbers print with a fraction
astype_str(cell, float_column) ==
    IF cell.k = "str" THEN cell.s
    ELSE IF float_column THEN ToString(cell.v) \o ".0"
    ELSE ToString(cell.v)

\* Series.isin(values), values being strings: a number equals no string
isin(cell, values) == cell.k = "str" /\ cell.s \in values

\* faulty variant: ascending=True
ComesBefore_ascending(a, b, ties) ==
    \/ a.cells.trending_score.v < b.cells.trending_score.v
    \/ /\ a.cells.trending_score.v = b.cells.trending_score.v
       /\ IF ties = "first" THEN a.index < b.index ELSE a.index > b.index

\* the row comes before the other in sort_values("trending_score", ascending=False);
\* the default sort kind leaves the order of equal keys to the build
ComesBefore(a, b, ties) ==
    \/ a.cells.trending_score.v > b.cells.trending_score.v
    \/ /\ a.cells.trending_score.v = b.cells.trending_score.v
       /\ IF ties = "first" THEN a.index < b.index ELSE a.index > b.index

RECURSIVE Insert(_, _, _)
Insert(r, s, ties) ==
    IF s = <<>> THEN <<r>>
    ELSE IF ComesBefore(r, Head(s), ties) THEN <<r>> \o s
    ELSE <<Head(s)>> \o Insert(r, Tail(s), ties)

RECURSIVE sort_values(_, _)
sort_values(rows, ties) ==
    IF rows = <<>> THEN <<>>
    ELSE Insert(Head(rows), sort_values(Tail(rows), ties), ties)

head(rows, n) == SubSeq(rows, 1, Min(n, Len(rows)))

reset_index(rows) == [i \in 1..Len(rows) |-> [rows[i] EXCEPT !.index = i - 1]]

---------------------------------------------------------------------------
(* Data loading *)

missing_columns(frame) == expected \ frame.columns

\* @st.cache_data load_data_from_path(path): the cache key is the path string,
\* so once a load of default_path has returned, the body does not run again.
\* A call that raises stores nothing.  A hit hands out a copy of the value.
load_data_from_path(cache, file) ==
    IF cache.hit
    THEN [ok |-> TRUE, df |-> cache.value, missing |-> {}, cache |-> cache]
    ELSE CHOOSE result \in
            {IF missing_columns(frame) # {}
             THEN [ok |-> FALSE, df |-> EmptyFrame, missing |-> missing_columns(frame),
                   cache |-> cache]
             ELSE [ok |-> TRUE, df |-> frame, missing |-> {},
                   cache |-> [hit |-> TRUE, value |-> frame]] :
             frame \in {read_csv(file)}} : TRUE

\* @st.cache_data load_data_from_buffer(buffer): the cache key is the content
\* of the uploaded buffer.
load_data_from_buffer(cache, buffer) ==
    IF \E e \in cache : e.key = buffer
    THEN [ok |-> TRUE, df |-> (CHOOSE e \in cache : e.key = buffer).value,
          missing |-> {}, cache |-> cache]
    ELSE CHOOSE result \in
            {IF missing_columns(frame) # {}
             THEN [ok |-> FALSE, df |-> EmptyFrame, missing |-> missing_columns(frame),
                   cache |-> cache]
             ELSE [ok |-> TRUE, df |-> frame, missing |-> {},
                   cache |-> cache \cup {[key |-> buffer, value |-> frame]}] :
             frame \in {read_csv(buffer)}} : TRUE

\* get_data(): the uploaded file first, else the local file; any failure is shown
\* and followed by st.stop()
get_data(up, dsk, pcache, bcache) ==
    IF up.exists
    THEN CHOOSE got \in
            {[stop |-> ~r.ok, df |-> r.df,
              data_source |-> IF r.ok THEN "Uploaded file" ELSE "",
              message |-> IF r.ok THEN NoMessage
                          ELSE [level |-> "error",
                                text |-> "Failed to read uploaded CSV: CSV missing required columns",
                                names |-> r.missing],
              path_cache |-> pcache, buffer_cache |-> r.cache] :
             r \in {load_data_from_buffer(bcache, up)}} : TRUE
    ELSE IF dsk.exists
    THEN CHOOSE got \in
            {[stop |-> ~r.ok, df |-> r.df,
              data_source |-> IF r.ok THEN "Local file: " \o default_path ELSE "",
              message |-> IF r.ok THEN NoMessage
                          ELSE [level |-> "error",
                                text |-> "Failed to read " \o default_path
                                           \o ": CSV missing required columns",
                                names |-> r.missing],
              path_cache |-> r.cache, buffer_cache |-> bcache] :
             r \in {load_data_from_path(pcache, dsk)}} : TRUE
    ELSE [stop |-> TRUE, df |-> EmptyFrame, data_source |-> "",
          message |-> [level |-> "warning", text |-> "No data file found.", names |-> {}],
          path_cache |-> pcache, buffer_cache |-> bcache]

---------------------------------------------------------------------------
(* The script below get_data(): each block maps the script's names (ns) to  *)
(* their values after the block.                                            *)

\* "Clean up/ensure types"
clean_types(frame) ==
    [frame EXCEPT !.rows =
        [i \in 1..Len(frame.rows) |->
            [frame.rows[i] EXCEPT
                !.cells.trending_score = fillna(to_numeric(@), 0),
                !.cells.score = fillna(to_numeric(@), 0),
                !.cells.num_comments = fillna(to_numeric(@), 0)]]]

\* sorted(df["subreddit"].dropna().astype(str).unique().tolist()), as a set:
\* the order of the options is presentation only
subreddit_options(frame) ==
    UNION {{astype_str(c, NaN \in col /\ c.k = "num") : c \in col \ {NaN}} :
           col \in {{frame.rows[i].cells.subreddit : i \in 1..Len(frame.rows)}}}

\* st.multiselect(options=all_subs, default=all_subs): the widget keeps the
\* user's choice while it is drawn with the same options, and is a new widget
\* holding its default otherwise
multiselect(options, was_drawn, old_options, choice) ==
    IF was_drawn /\ old_options = options THEN choice ELSE options

block_clean(ns) == [ns EXCEPT !.df = clean_types(ns.df)]

block_sidebar(ns, was_drawn, old_options, choice) ==
    [ns EXCEPT !.all_subs = subreddit_options(ns.df),
               !.selected_subs = multiselect(subreddit_options(ns.df), was_drawn,
                                             old_options, choice)]

\* faulty variant: > for >=
score_filter_strict(rows, min_score) ==
    SelectSeq(rows, LAMBDA r : r.cells.trending_score.v > min_score)

\* df[df["trending_score"] >= min_trending_score]
score_filter(rows, min_score) ==
    SelectSeq(rows, LAMBDA r : r.cells.trending_score.v >= min_score)

\* faulty variant: the allow-list is not applied
subreddit_filter_none(rows, subs) == rows

\* filtered[filtered["subreddit"].isin(selected_subs)]
subreddit_filter(rows, subs) ==
    SelectSeq(rows, LAMBDA r : isin(r.cells.subreddit, subs))

\* "Apply filters"
apply_filters(frame, min_score, subs) ==
    LET kept == score_filter(frame.rows, min_score)
    IN [columns |-> frame.columns,
        rows |-> IF subs # {} THEN subreddit_filter(kept, subs) ELSE kept]

\* faulty variant: the filter rebinds df itself
block_filter_in_place(ns) ==
    [ns EXCEPT !.df = apply_filters(ns.df, ns.min_trending_score, ns.selected_subs),
               !.filtered = apply_filters(ns.df, ns.min_trending_score, ns.selected_subs)]

block_filter(ns) ==
    [ns EXCEPT !.filtered = apply_filters(ns.df, ns.min_trending_score, ns.selected_subs)]

\* .loc[:, [...]].rename(columns={"num_comments": "comments"})
project_rename(rows) ==
    [i \in 1..Len(rows) |->
        [index |-> rows[i].index,
         cells |-> [title |-> rows[i].cells.title,
                    subreddit |-> rows[i].cells.subreddit,
                    trending_score |-> rows[i].cells.trending_score,
                    score |-> rows[i].cells.score,
                    comments |-> rows[i].cells.num_comments]]]

\* "Sort by trending score desc & slice top 20"
top20_of(frame, ties) ==
    reset_index(head(project_rename(sort_values(frame.rows, ties)), TopN))

block_top20(ns) ==
    [ns EXCEPT !.top20 = top20_of(ns.filtered, ns.ties), !.table_view = "dataframe"]

\* title.str.slice(0, 80) + ("..." if len(title) > 80 else "")
title_short(title) ==
    SubSeq(title.s, 1, Min(TitleCut, Len(title.s)))
        \o (IF Len(title.s) > TitleCut THEN "..." ELSE "")

\* "Trending score visualization (bar)": the labels go to a copy of top20
block_bar(ns) ==
    IF Len(ns.top20) # 0
    THEN [ns EXCEPT !.top20_plot =
                       [i \in 1..Len(ns.top20) |->
                          [index |-> ns.top20[i].index,
                           cells |-> [c \in DOMAIN ns.top20[i].cells \cup {"title_short"} |->
                                        IF c = "title_short"
                                        THEN Str(title_short(ns.top20[i].cells.title))
                                        ELSE ns.top20[i].cells[c]]]],
                    !.bar_view = "chart"]
    ELSE [ns EXCEPT !.bar_view = "info"]

\* filtered["subreddit"].value_counts(): one entry per value present, NaN dropped
value_counts(rows) ==
    LET present == {rows[i].cells.subreddit : i \in 1..Len(rows)} \ {NaN}
    IN {[subreddit |-> c,
         count |-> Cardinality({i \in 1..Len(rows) : rows[i].cells.subreddit = c})] :
        c \in present}

\* faulty variant: the counts are taken over the top 20 only
block_pie_top20(ns) ==
    IF Len(ns.filtered.rows) # 0
    THEN [ns EXCEPT !.sub_counts = value_counts(ns.top20), !.pie_view = "chart"]
    ELSE [ns EXCEPT !.pie_view = "info"]

\* "Subreddit breakdown (pie)"
block_pie(ns) ==
    IF Len(ns.filtered.rows) # 0
    THEN [ns EXCEPT !.sub_counts = value_counts(ns.filtered.rows), !.pie_view = "chart"]
    ELSE [ns EXCEPT !.pie_view = "info"]

\* the names of a fresh execution
fresh(loaded, min_score, ties) ==
    [df |-> loaded, min_trending_score |-> min_score, ties |-> ties,
     all_subs |-> {}, selected_subs |-> {}, filtered |-> EmptyFrame,
     top20 |-> <<>>, top20_plot |-> <<>>, sub_counts |-> {},
     table_view |-> "none", bar_view |-> "none", pie_view |-> "none"]

\* lines 144-250 on a loaded table
pipeline(loaded, min_score, ties, was_drawn, old_options, choice) ==
    CHOOSE shown \in
        {block_pie(n5) : n5 \in
          {block_bar(n4) : n4 \in
            {block_top20(n3) : n3 \in
              {block_filter(n2) : n2 \in
                {block_sidebar(n1, was_drawn, old_options, choice) : n1 \in
                  {block_clean(fresh(loaded, min_score, ties))}}}}}} : TRUE

\* one execution of the script: what it loads, shows and leaves in the caches
script(up, min_score, choice, dsk, pcache, bcache, was_drawn, old_options, ties) ==
    CHOOSE run \in
        {[stop |-> g.stop, message |-> g.message,
          path_cache |-> g.path_cache, buffer_cache |-> g.buffer_cache,
          ns |-> IF g.stop THEN fresh(EmptyFrame, min_score, ties)
                 ELSE pipeline(g.df, min_score, ties, was_drawn, old_options, choice)] :
         g \in {get_data(up, dsk, pcache, bcache)}} : TRUE

---------------------------------------------------------------------------
(* The inputs: CSV files, slider positions *)

TsFields == {"90", "60", "-5", "n/a"}
SubFields == {"aww", "news", ""}
Styles == {"clean", "dirty", "numeric_subs"}
TieOrders == {"first", "last"}
MinScores == {SliderMin, min_score_default, SliderMax}

LongTitle == "A very long post title that keeps going well past the eighty characters the bar chart shows "

Seeds == UNION {[1..n -> TsFields \X SubFields] : n \in 0..MaxRows}

\* "clean": every count is a number.  "dirty": an extra column, and the odd
\* rows hold a count that is no number, a missing count, and a word where the
\* seed has no trending score.  "numeric_subs": the communities are numbers.
MakeCsv(seed, style, len) ==
    LET header == IF style = "dirty" THEN expected \cup {"url"} ELSE expected
        field(c, i) ==
            LET p == seed[((i - 1) % Len(seed)) + 1]
            IN CASE c = "title" ->
                      (IF i % 2 = 1 THEN "post " ELSE LongTitle) \o ToString(i)
                 [] c = "subreddit" ->
                      IF style # "numeric_subs" THEN p[2]
                      ELSE IF p[2] = "aww" THEN "7"
                      ELSE IF p[2] = "news" THEN "8" ELSE ""
                 [] c = "trending_score" ->
                      IF style = "dirty" /\ i % 2 = 1 /\ p[1] = "n/a" THEN "high" ELSE p[1]
                 [] c = "score" ->
                      IF style = "dirty" /\ i % 2 = 1 THEN "1.2k" ELSE "3"
                 [] c = "num_comments" ->
                      IF style = "dirty" /\ i % 2 = 1 THEN "" ELSE "4"
                 [] OTHER -> "https://example.org"
    IN [exists |-> TRUE, header |-> header,
        rows |-> [i \in 1..len |-> [c \in header |-> field(c, i)]]]

\* a file holds its seed once, or, the seed being one row or two, the seed
\* repeated up to TopN + Extra rows
Lengths(seed) ==
    IF Len(seed) \in {1, 2} THEN {Len(seed), TopN + Extra} ELSE {Len(seed)}

GeneratedFiles ==
    UNION {{MakeCsv(seed, style, len) : len \in Lengths(seed), style \in Styles} :
           seed \in Seeds}

\* the file without some of its columns
Drop(file, cols) ==
    [file EXCEPT !.header = @ \ cols,
                 !.rows = [i \in 1..Len(file.rows) |->
                             [c \in file.header \ cols |-> file.rows[i][c]]]]

MissingChoices == {{"trending_score"}, {"title", "num_comments"}, expected}

GoodA == MakeCsv(<<<<"90", "aww">>, <<"60", "news">>>>, "clean", 2)
GoodB == MakeCsv(<<<<"n/a", "aww">>, <<"90", "">>, <<"90", "news">>>>, "dirty", 3)

SessionFiles == {GoodA, GoodB} \cup {Drop(GoodB, m) : m \in MissingChoices}

---------------------------------------------------------------------------
(* The state machine *)

\* the state an execution leaves
Shown(r, dsk, up, min_score, ties) ==
    /\ disk = dsk
    /\ uploaded_file = up
    /\ min_trending_score = min_score
    /\ argsort_ties = ties
    /\ path_cache = r.path_cache
    /\ buffer_cache = r.buffer_cache
    /\ status = IF r.stop THEN "stopped" ELSE "ok"
    /\ message = r.message
    /\ df = r.ns.df
    /\ all_subs = r.ns.all_subs
    /\ selected_subs = r.ns.selected_subs
    /\ filtered = r.ns.filtered
    /\ top20 = r.ns.top20
    /\ top20_plot = r.ns.top20_plot
    /\ sub_counts = r.ns.sub_counts
    /\ table_view = r.ns.table_view
    /\ bar_view = r.ns.bar_view
    /\ pie_view = r.ns.pie_view

\* the first execution of a session: nothing uploaded, empty caches, the
\* slider and the multiselect at their defaults
FirstRun(file, ties) ==
    \E r \in {script(NoFile, min_score_default, {}, file,
                     [hit |-> FALSE, value |-> EmptyFrame], {}, FALSE, {}, ties)} :
        Shown(r, file, NoFile, min_score_default, ties)

Init == \E file \in SessionFiles \cup {NoFile}, ties \in TieOrders : FirstRun(file, ties)

InitPipeline == \E file \in GeneratedFiles, ties \in TieOrders : FirstRun(file, ties)

\* a re-execution with the widget values up, min_score and choice
Rerun(up, min_score, choice) ==
    \E r \in {script(up, min_score, choice, disk, path_cache, buffer_cache,
                     status = "ok", all_subs, argsort_ties)} :
       /\ uploaded_file' = up
       /\ min_trending_score' = min_score
       /\ path_cache' = r.path_cache
       /\ buffer_cache' = r.buffer_cache
       /\ status' = IF r.stop THEN "stopped" ELSE "ok"
       /\ message' = r.message
       /\ df' = r.ns.df
       /\ all_subs' = r.ns.all_subs
       /\ selected_subs' = r.ns.selected_subs
       /\ filtered' = r.ns.filtered
       /\ top20' = r.ns.top20
       /\ top20_plot' = r.ns.top20_plot
       /\ sub_counts' = r.ns.sub_counts
       /\ table_view' = r.ns.table_view
       /\ bar_view' = r.ns.bar_view
       /\ pie_view' = r.ns.pie_view
       /\ UNCHANGED <<disk, argsort_ties>>

\* st_autorefresh fires: every widget keeps its value
TimerTick ==
    \E choice \in {selected_subs} : Rerun(uploaded_file, min_trending_score, choice)

\* the user moves the slider
ChangeMinScore ==
    \E m \in MinScores \ {min_trending_score} : Rerun(uploaded_file, m, selected_subs)

\* the user changes the multiselect, which is drawn only by a run that did not stop
ChangeSubreddits ==
    /\ status = "ok"
    /\ \E subs \in (SUBSET all_subs) \ {selected_subs} :
          Rerun(uploaded_file, min_trending_score, subs)

\* the user uploads a file
UploadFile ==
    \E file \in SessionFiles \ {uploaded_file} :
        Rerun(file, min_trending_score, selected_subs)

\* the user removes the uploaded file
RemoveUpload ==
    /\ uploaded_file.exists
    /\ Rerun(NoFile, min_trending_score, selected_subs)

AllButDisk == <<uploaded_file, path_cache, buffer_cache, argsort_ties, min_trending_score,
                 status, message, df, all_subs, selected_subs, filtered, top20,
                 top20_plot, sub_counts, table_view, bar_view, pie_view>>

\* whatever produces trending_analysis.csv writes it anew
FileWritten ==
    /\ \E file \in SessionFiles \ {disk} : disk' = file
    /\ UNCHANGED AllButDisk

FileDeleted ==
    /\ disk.exists
    /\ disk' = NoFile
    /\ UNCHANGED AllButDisk

Next ==
    \/ TimerTick
    \/ ChangeMinScore
    \/ ChangeSubreddits
    \/ UploadFile
    \/ RemoveUpload
    \/ FileWritten
    \/ FileDeleted

Spec == Init /\ [][Next]_vars

\* the filters at work on one source
NextPipeline ==
    \/ TimerTick
    \/ ChangeMinScore
    \/ ChangeSubreddits

PipelineSpec == InitPipeline /\ [][NextPipeline]_vars

---------------------------------------------------------------------------
(* Vocabulary of the properties *)

Range(seq) == {seq[i] : i \in 1..Len(seq)}

TS(r) == r.cells.trending_score.v

\* the table get_data() handed to the last execution, before the clean-up
LoadedRaw ==
    IF uploaded_file.exists
    THEN (CHOOSE e \in buffer_cache : e.key = uploaded_file).value
    ELSE path_cache.value

\* a cell that is missing or no number
Unparseable(cell) == cell.k = "nan" \/ (cell.k = "str" /\ ~IsNumberText(cell.s))

RawRow(r) == LoadedRaw.rows[r.index + 1]

\* the cells of the top-N table a row of the filtered view turns into
Projected(r) ==
    [title |-> r.cells.title, subreddit |-> r.cells.subreddit,
     trending_score |-> r.cells.trending_score, score |-> r.cells.score,
     comments |-> r.cells.num_comments]

Kept == {r \in Range(filtered.rows) : \E i \in 1..Len(top20) : top20[i].cells = Projected(r)}

\* where in the loaded table the i-th row of the top-N table comes from
Origin(i) == (CHOOSE r \in Range(filtered.rows) : Projected(r) = top20[i].cells).index

RECURSIVE SumCounts(_)
SumCounts(counts) ==
    IF counts = {} THEN 0
    ELSE LET e == CHOOSE x \in counts : TRUE IN e.count + SumCounts(counts \ {e})

AboveThreshold == {r \in Range(df.rows) : TS(r) >= min_trending_score}

---------------------------------------------------------------------------
(* C1  With an empty allow-list the filtered view holds exactly the rows of *)
(*     the loaded table whose normalized trending_score is at least the     *)
(*     threshold, each once: none below it is kept, none at or above it is  *)
(*     dropped.                                                             *)
C1_ThresholdFilterExact ==
    (status = "ok" /\ selected_subs = {}) =>
        /\ Range(filtered.rows) = AboveThreshold
        /\ Len(filtered.rows) = Cardinality(AboveThreshold)

C1_Witness ==
    /\ status = "ok" /\ selected_subs = {} /\ all_subs # {}
    /\ \E r \in Range(df.rows) : TS(r) = min_trending_score /\ r \in Range(filtered.rows)
    /\ \E r \in Range(df.rows) : TS(r) < min_trending_score /\ r \notin Range(filtered.rows)

(* C2  As stated: with a non-empty allow-list and threshold 0 the filtered   *)
(*     view holds exactly the rows whose community is in the allow-list.     *)
C2_AllowListAlone ==
    (status = "ok" /\ selected_subs # {} /\ min_trending_score = 0) =>
        Range(filtered.rows) =
            {r \in Range(df.rows) : /\ r.cells.subreddit.k = "str"
                                    /\ r.cells.subreddit.s \in selected_subs}

(* C2  Amended: with a non-empty allow-list the filtered view holds exactly  *)
(*     the rows at or above the threshold (so, at threshold 0, those with a  *)
(*     trending_score >= 0) whose community cell is a string of the          *)
(*     allow-list; with an empty allow-list it holds every row at or above   *)
(*     the threshold, the rows with a missing community included.            *)
C2_AllowListAndThreshold ==
    status = "ok" =>
        /\ selected_subs # {} =>
              /\ Range(filtered.rows) =
                    {r \in AboveThreshold : /\ r.cells.subreddit.k = "str"
                                            /\ r.cells.subreddit.s \in selected_subs}
              /\ Len(filtered.rows) = Cardinality(Range(filtered.rows))
        /\ selected_subs = {} =>
              /\ Range(filtered.rows) = AboveThreshold
              /\ \A r \in AboveThreshold : r.cells.subreddit = NaN => r \in Range(filtered.rows)

C2_Witness ==
    /\ status = "ok" /\ min_trending_score = 0
    /\ selected_subs # {} /\ selected_subs # all_subs
    /\ filtered.rows # <<>>
    /\ \E r \in AboveThreshold : r \notin Range(filtered.rows)

(* C3  The top-N table has min(20, len(filtered)) rows, in non-increasing    *)
(*     order of trending_score, each a row of the filtered view, and every   *)
(*     row of the filtered view left out scores no more than any row kept.   *)
C3_TopN ==
    status = "ok" =>
        /\ Len(top20) = Min(TopN, Len(filtered.rows))
        /\ \A i, j \in 1..Len(top20) :
              i < j => top20[i].cells.trending_score.v >= top20[j].cells.trending_score.v
        /\ \A i \in 1..Len(top20) : \E r \in Range(filtered.rows) : Projected(r) = top20[i].cells
        /\ Cardinality(Kept) = Len(top20)
        /\ \A out \in Range(filtered.rows) \ Kept : \A in \in Kept : TS(out) <= TS(in)

C3_Witness ==
    /\ status = "ok"
    /\ Len(filtered.rows) > TopN
    /\ Len(top20) = TopN
    /\ top20[1].cells.trending_score # top20[TopN].cells.trending_score

(* C4  Of two rows of the filtered view with equal trending_score the one    *)
(*     that comes first in the loaded table comes first in the top-N table,  *)
(*     and where the cut falls inside a group of equals the earlier rows of  *)
(*     the group are the ones kept.                                          *)
C4_StableOnTies ==
    status = "ok" =>
        /\ \A i, j \in 1..Len(top20) :
              (i < j /\ top20[i].cells.trending_score = top20[j].cells.trending_score)
                  => Origin(i) < Origin(j)
        /\ \A out \in Range(filtered.rows) \ Kept : \A in \in Kept :
              TS(out) = TS(in) => in.index < out.index

(* C5  Whenever the source an execution reads lacks required columns, the    *)
(*     execution stops with an error naming exactly the missing columns and  *)
(*     produces no table, filter, ranking, aggregation or view.              *)
C5_MissingColumnsHalt ==
    [][disk' = disk =>
         LET source == IF uploaded_file'.exists THEN uploaded_file' ELSE disk'
         IN (source.exists /\ expected \ source.header # {}) =>
               /\ status' = "stopped"
               /\ message'.level = "error"
               /\ message'.names = expected \ source.header
               /\ df' = EmptyFrame /\ filtered' = EmptyFrame
               /\ top20' = <<>> /\ sub_counts' = {}
               /\ table_view' = "none" /\ bar_view' = "none" /\ pie_view' = "none"]_vars

(* C6  As stated: a row whose trending_score was missing or no number is     *)
(*     left out of the filtered view when min_score > 0 and is in it when    *)
(*     min_score = 0.                                                        *)
C6_CoercedRowInAtZero ==
    status = "ok" =>
        \A r \in Range(df.rows) :
            Unparseable(RawRow(r).cells.trending_score) =>
                /\ min_trending_score > 0 => r \notin Range(filtered.rows)
                /\ min_trending_score = 0 => r \in Range(filtered.rows)

(* C6  Amended: the load succeeds whatever the cells of trending_score,      *)
(*     score and num_comments hold; each such cell that is missing or no     *)
(*     number is 0 after the clean-up and every other keeps its number; a    *)
(*     row whose trending_score was missing or no number is left out of the  *)
(*     filtered view when min_score > 0 and, when min_score = 0, is in it    *)
(*     if the allow-list is empty or holds the row's community.              *)
C6_CoercionToZero ==
    /\ status = "ok"
    /\ \A r \in Range(df.rows) :
          /\ \A c \in {"trending_score", "score", "num_comments"} :
                /\ r.cells[c].k = "num"
                /\ Unparseable(RawRow(r).cells[c]) => r.cells[c] = Num(0)
                /\ RawRow(r).cells[c].k = "num" => r.cells[c] = RawRow(r).cells[c]
          /\ Unparseable(RawRow(r).cells.trending_score) =>
                /\ min_trending_score > 0 => r \notin Range(filtered.rows)
                /\ (/\ min_trending_score = 0
                    /\ \/ selected_subs = {}
                       \/ /\ r.cells.subreddit.k = "str"
                          /\ r.cells.subreddit.s \in selected_subs)
                      => r \in Range(filtered.rows)

C6_Witness ==
    /\ status = "ok" /\ min_trending_score = 0
    /\ \E r \in Range(filtered.rows) :
          /\ RawRow(r).cells.trending_score.k = "str"
          /\ RawRow(r).cells.score.k = "str"
          /\ RawRow(r).cells.num_comments = NaN
    /\ \E r \in Range(filtered.rows) : RawRow(r).cells.trending_score = NaN

(* C7  The community counts are taken over all filtered rows: each count is  *)
(*     the number of filtered rows with that community, the counts sum to    *)
(*     the number of filtered rows that have a community, a row without one  *)
(*     is not counted, and no count is 0.                                    *)
C7_CommunityCounts ==
    pie_view = "chart" =>
        LET with_community == {r \in Range(filtered.rows) : r.cells.subreddit # NaN}
        IN /\ SumCounts(sub_counts) = Cardinality(with_community)
           /\ \A e \in sub_counts :
                 /\ e.subreddit # NaN
                 /\ e.count > 0
                 /\ e.count = Cardinality({r \in with_community : r.cells.subreddit = e.subreddit})
           /\ \A r \in with_community : \E e \in sub_counts : e.subreddit = r.cells.subreddit
           /\ \A e1, e2 \in sub_counts : e1.subreddit = e2.subreddit => e1 = e2

C7_Witness ==
    /\ pie_view = "chart"
    /\ Len(filtered.rows) > TopN
    /\ sub_counts # {}
    /\ \E r \in Range(filtered.rows) : r.cells.subreddit = NaN
    /\ \E r \in Range(filtered.rows) \ Kept : r.cells.subreddit # NaN

(* C8  Whenever the filtered view is empty the execution runs to its end,    *)
(*     the top-N table is empty, and the table, the bar chart and the pie    *)
(*     chart each show an explicit "no data" notice.                         *)
C8_EmptyShowsNoData ==
    (status = "ok" /\ filtered.rows = <<>>) =>
        /\ top20 = <<>>
        /\ table_view = "info"
        /\ bar_view = "info"
        /\ pie_view = "info"

(* C9  Once the filter, the sort/projection/rename/head step, the label      *)
(*     step and the aggregation have run, the loaded table is still the      *)
(*     cleaned-up table get_data() returned: same columns, same rows in the  *)
(*     same order, same cells.                                               *)
C9_LoadedTableUnchanged ==
    status = "ok" => df = clean_types(LoadedRaw)

C9_Witness ==
    /\ status = "ok"
    /\ Len(df.rows) > TopN
    /\ Len(filtered.rows) < Len(df.rows)
    /\ bar_view = "chart" /\ pie_view = "chart"
    /\ top20_plot # <<>>

(* C10 What an execution shows depends only on the source it reads, the      *)
(*     threshold and the allow-list: it is what a fresh session shows for    *)
(*     them.                                                                 *)
C10_RunsAreStateless ==
    [][disk' = disk =>
         LET g == get_data(uploaded_file', disk', [hit |-> FALSE, value |-> EmptyFrame], {})
         IN IF g.stop
            THEN status' = "stopped" /\ message' = g.message
            ELSE /\ status' = "ok"
                 /\ df' = clean_types(g.df)
                 /\ filtered' = apply_filters(clean_types(g.df), min_trending_score',
                                              selected_subs')
                 /\ top20' = top20_of(filtered', argsort_ties')
                 /\ pie_view' = "chart" => sub_counts' = value_counts(filtered'.rows)]_vars

====
